---- MODULE Spec2Model ----
(***************************************************************************)
(* A model of the fallible library (src/src/fallible.ts): Result values,   *)
(* the propagation scopes fallible / asyncFallible, and the adapters that  *)
(* turn thrown exceptions into Results.                                    *)
(*                                                                         *)
(* The library is a set of higher-order functions, so the model is a small *)
(* JavaScript machine: a call stack of frames, the completion (return or   *)
(* throw) travelling between frames, promises, suspended async frames and  *)
(* the microtask queue.  The functions handed to the library (bodies and   *)
(* thunks) are the environment: each of their statements is chosen when it *)
(* executes.                                                               *)
(***************************************************************************)
EXTENDS Integers, Sequences, FiniteSets, TLC

VARIABLES
    stack,      \* the running call stack, innermost frame last
    comp,       \* the completion being delivered to the top frame
    promises,   \* promises[p]: state and value of promise p
    waiting,    \* suspended async frames, each awaiting a pending promise
    jobs,       \* the microtask queue: frames to resume, with the outcome
    live,       \* history: per active boundary, its first failing propagate
    steps,      \* statements executed so far
    ev          \* history: what the last step did

vars == <<stack, comp, promises, waiting, jobs, live, steps, ev>>

\* Statements (propagate calls, library calls, awaits) one run executes.
MaxSteps == 3
\* Library calls active at once on the call stack.
MaxDepth == 2
\* Calls of the by-type adapters, the async adapters and the wrappers one
\* run makes.
MaxCalls == 2
\* Promises the async adapters and their thunks create in one run.
MaxPromises == 2

-----------------------------------------------------------------------------
(* Values.  Every value is a record with a type tag t.                     *)

Undefined == [t |-> "undefined"]
Num(n) == [t |-> "number", n |-> n]
Str(s) == [t |-> "string", s |-> s]
PromiseRef(p) == [t |-> "Promise", p |-> p]

\* An instance of a class extending Error; id is the object's identity.
TestError(id) == [t |-> "object", class |-> "TestError", id |-> id]

\* Values the environment's functions throw: a number and an error object.
ThrowVals == {Num(123), TestError(1)}
\* Values the functions handed to the by-type adapters throw as well: a
\* string and an instance of Error itself.
TypedThrowVals == ThrowVals \cup {Str("123"), [t |-> "object", class |-> "Error", id |-> 1]}

\* Completions of a call: nothing yet, a returned value, a thrown value.
None == [c |-> "none"]
Return(v) == [c |-> "return", v |-> v]
Throw(v) == [c |-> "throw", v |-> v]

\* The sentinel.  cap and scope are history only, the code has no such
\* fields: the boundary that handed out the capability whose call made the
\* sentinel, and the innermost boundary around that call.
FallibleError(value) ==
    [t |-> "FallibleError", value |-> value, cap |-> 0, scope |-> 0]

\* A sentinel object that an earlier catchAnyException call of the program
\* captured, now an ordinary value the environment holds.
StaleSentinel == FallibleError(Str("stale"))

\* Payloads the environment hands to ok() and error().
OkVals == {Num(1)}
ErrVals == {Str("InvalidJSON"), Str("NotInteger"), StaleSentinel}

\* Mutant: the tag is inferred from the payload, an Ok needs a value.
ok_tagFromPayload(value) ==
    [t |-> "Result", ok |-> value # Undefined, value |-> value]

ok(value) == [t |-> "Result", ok |-> TRUE, value |-> value]

error(value) == [t |-> "Result", ok |-> FALSE, value |-> value]

IsResult(v) == v.t = "Result"
IsSentinel(v) == v.t = "FallibleError"

\* Mutant: the Ok result is handed back whole instead of its value.
propagate_wholeResult(result) ==
    IF ~result.ok
    THEN Throw(FallibleError(result.value))
    ELSE Return(result)

\* Mutant: nothing is thrown for an Error; its payload is returned.
propagate_returnsPayload(result) == Return(result.value)

propagate(result) ==
    IF ~result.ok
    THEN Throw(FallibleError(result.value))
    ELSE Return(result.value)

\* Mutant: the caught payload is returned in an Ok.
fallible_okForSentinel(c) ==
    IF c.c = "return"
    THEN Return(c.v)
    ELSE IF IsSentinel(c.v)
         THEN Return(ok(c.v.value))
         ELSE Throw(c.v)

\* Mutant: the value the body returned is wrapped in a new Ok.
fallible_wrapsReturn(c) ==
    IF c.c = "return"
    THEN Return(ok(c.v))
    ELSE IF IsSentinel(c.v)
         THEN Return(error(c.v.value))
         ELSE Throw(c.v)

\* Mutant: the catch is narrowed to sentinels whose payload is no sentinel.
fallible_narrowCatch(c) ==
    IF c.c = "return"
    THEN Return(c.v)
    ELSE IF IsSentinel(c.v) /\ ~IsSentinel(c.v.value)
         THEN Return(error(c.v.value))
         ELSE Throw(c.v)

\* fallible, given the completion of func(propagate).
fallible(c) ==
    IF c.c = "return"
    THEN Return(c.v)
    ELSE IF IsSentinel(c.v)
         THEN Return(error(c.v.value))
         ELSE Throw(c.v)

\* Mutant: the sentinel is not caught (as with `return func(propagate)`,
\* where the rejection passes the try block by).
asyncFallible_noCatch(c) ==
    IF c.c = "return"
    THEN Return(c.v)
    ELSE Throw(c.v)

\* Mutant: every exception is caught and turned into an Error.
asyncFallible_catchAll(c) ==
    IF c.c = "return"
    THEN Return(c.v)
    ELSE IF IsSentinel(c.v)
         THEN Return(error(c.v.value))
         ELSE Return(error(c.v))

\* asyncFallible, given the completion of `await func(propagate)`; the
\* result settles the promise asyncFallible returned.
asyncFallible(c) ==
    IF c.c = "return"
    THEN Return(c.v)
    ELSE IF IsSentinel(c.v)
         THEN Return(error(c.v.value))
         ELSE Throw(c.v)

\* The classes of the environment's error objects, each with the class it
\* extends.
Classes == {"Error", "TestError"}
Parent(class) == IF class = "TestError" THEN "Error" ELSE "Object"

\* class is type, or extends it directly or through other classes.
RECURSIVE IsSubclass(_, _)
IsSubclass(class, type) ==
    \/ class = type
    \/ class \in Classes /\ IsSubclass(Parent(class), type)

\* Mutant: only the exact class matches, as with
\* `value.constructor === type`.
InstanceOf_exactClass(value, type) ==
    value.t = "object" /\ value.class = type

\* value instanceof type: false of every primitive.
InstanceOf(value, type) ==
    value.t = "object" /\ IsSubclass(value.class, type)

\* A guard is a function of the environment, named by fn, or the guard
\* instanceOfGuard makes of a class.
isNumber(value) == value.t = "number"
instanceOfGuard(type) == [fn |-> "instanceof", type |-> type]
\* Guards the environment passes to the guarded adapters.
Guards == {[fn |-> "isNumber", type |-> ""]}
ApplyGuard(guard, value) ==
    IF guard.fn = "instanceof"
    THEN InstanceOf(value, guard.type)
    ELSE guard.fn = "isNumber" /\ isNumber(value)

\* Mutant: the exception that does not match is thrown wrapped in a new
\* error object.
guardOrThrow_wraps(exception, guard) ==
    IF ~ApplyGuard(guard, exception)
    THEN Throw([t |-> "object", class |-> "Error", cause |-> exception])
    ELSE Return(error(exception))

\* A guard that throws instead of answering, and what it throws.
GuardFailure == TestError(3)
ThrowingGuards == {[fn |-> "throws", type |-> ""]}

\* guard(exception): the guard's answer, or the exception it throws.
CallGuard(guard, exception) ==
    IF guard.fn = "throws"
    THEN Throw(GuardFailure)
    ELSE Return(ApplyGuard(guard, exception))

\* Mutant: a guard that throws counts as a guard that does not match.
guardOrThrow_guardNeverThrows(exception, guard) ==
    IF CallGuard(guard, exception) # Return(TRUE)
    THEN Throw(exception)
    ELSE Return(error(exception))

\* Mutant: the sentinel of propagate is captured whatever the guard says.
guardOrThrow_capturesSentinel(exception, guard) ==
    IF CallGuard(guard, exception) = Return(TRUE) \/ IsSentinel(exception)
    THEN Return(error(exception))
    ELSE IF CallGuard(guard, exception).c = "throw"
    THEN CallGuard(guard, exception)
    ELSE Throw(exception)

guardOrThrow(exception, guard) ==
    LET answer == CallGuard(guard, exception)
    IN  IF answer.c = "throw"
        THEN answer
        ELSE IF ~answer.v
        THEN Throw(exception)
        ELSE Return(error(exception))

\* The adapters that hand the exception of func to guardOrThrow, and the
\* arguments of the calls of the guard one call of such an adapter makes,
\* given the completion of func.
GuardedAdapters ==
    {"catchGuardedException", "catchExceptionByType",
     "asyncCatchGuardedException", "asyncCatchExceptionByType"}
GuardCalls(k, c) ==
    IF k \in GuardedAdapters /\ c.c = "throw" THEN <<c.v>> ELSE <<>>

\* Mutant: only error objects are captured, primitives are rethrown.
catchAnyException_objectsOnly(c) ==
    IF c.c = "return"
    THEN Return(ok(c.v))
    ELSE IF c.v.t = "object"
         THEN Return(error(c.v))
         ELSE Throw(c.v)

\* Mutant: the sentinel of propagate is let through to the boundary.
catchAnyException_passesSentinel(c) ==
    IF c.c = "return"
    THEN Return(ok(c.v))
    ELSE IF IsSentinel(c.v)
         THEN Throw(c.v)
         ELSE Return(error(c.v))

\* catchAnyException, given the completion of func().
catchAnyException(c) ==
    IF c.c = "return"
    THEN Return(ok(c.v))
    ELSE Return(error(c.v))

\* catchGuardedException, given the completion of func().
catchGuardedException(c, exceptionGuard) ==
    IF c.c = "return"
    THEN Return(ok(c.v))
    ELSE guardOrThrow(c.v, exceptionGuard)

\* catchExceptionByType, given the completion of func().
catchExceptionByType(c, exceptionType) ==
    catchGuardedException(c, instanceOfGuard(exceptionType))

\* asyncCatchAnyException, given the completion of `await func()`, or the
\* exception func() threw before returning; the result settles the promise
\* asyncCatchAnyException returned.
asyncCatchAnyException(c) ==
    IF c.c = "return"
    THEN Return(ok(c.v))
    ELSE Return(error(c.v))

\* Mutant: every exception is captured, whatever the guard says.
asyncCatchGuardedException_catchAll(c, exceptionGuard) ==
    IF c.c = "return"
    THEN Return(ok(c.v))
    ELSE Return(error(c.v))

\* asyncCatchGuardedException, given the completion of `await func()`.
asyncCatchGuardedException(c, exceptionGuard) ==
    IF c.c = "return"
    THEN Return(ok(c.v))
    ELSE guardOrThrow(c.v, exceptionGuard)

\* asyncCatchExceptionByType, given the completion of `await func()`.
asyncCatchExceptionByType(c, exceptionType) ==
    asyncCatchGuardedException(c, instanceOfGuard(exceptionType))

\* Functions the environment hands to mapError and tapError: the constant
\* function () => 'test', a mock that returns nothing, a function that puts
\* its argument in a new object, and one that throws its argument.
Mappers == {[fn |-> "toTest"], [fn |-> "mock"], [fn |-> "box"], [fn |-> "thrower"]}

\* g after f: e => g(f(e)).
Compose(g, f) == [fn |-> "compose", g |-> g, f |-> f]
\* The function tapError hands to mapError: error => { func(error); return error }.
Tap(func) == [fn |-> "tap", of |-> func]

\* One call of a function of the environment: its completion.  History:
\* calls lists the calls made of the environment's functions, in order.
Called(func, arg, c) == [c |-> c, calls |-> <<[fn |-> func.fn, arg |-> arg]>>]

\* func(arg)
RECURSIVE Invoke(_, _)
Invoke(func, arg) ==
    CASE func.fn = "toTest" -> Called(func, arg, Return(Str("test")))
      [] func.fn = "mock" -> Called(func, arg, Return(Undefined))
      [] func.fn = "box" -> Called(func, arg, Return([t |-> "box", of |-> arg]))
      [] func.fn = "thrower" -> Called(func, arg, Throw(arg))
      [] func.fn = "compose" ->
            LET a == Invoke(func.f, arg)
            IN  IF a.c.c = "throw" THEN a
                ELSE LET b == Invoke(func.g, a.c.v)
                     IN  [c |-> b.c, calls |-> a.calls \o b.calls]
      [] func.fn = "tap" ->
            LET a == Invoke(func.of, arg)
            IN  [c |-> IF a.c.c = "throw" THEN a.c ELSE Return(arg),
                 calls |-> a.calls]

\* Mutant: the function is applied to the value of an Ok result as well.
mapError_mapsOk(func, result) ==
    LET a == Invoke(func, result.value)
    IN  [c |-> IF a.c.c = "throw" THEN a.c
               ELSE Return([t |-> "Result", ok |-> result.ok, value |-> a.c.v]),
         calls |-> a.calls, arg |-> result]

\* Mutant: the mapped payload comes back in an Ok result.
mapError_okForError(func, result) ==
    IF result.ok
    THEN [c |-> Return(result), calls |-> <<>>, arg |-> result]
    ELSE LET a == Invoke(func, result.value)
         IN  [c |-> IF a.c.c = "throw" THEN a.c ELSE Return(ok(a.c.v)),
              calls |-> a.calls, arg |-> result]

\* Mutant: the function is applied twice.
mapError_twice(func, result) ==
    IF result.ok
    THEN [c |-> Return(result), calls |-> <<>>, arg |-> result]
    ELSE LET a == Invoke(Compose(func, func), result.value)
         IN  [c |-> IF a.c.c = "throw" THEN a.c ELSE Return(error(a.c.v)),
              calls |-> a.calls, arg |-> result]

\* Mutant: the payload of the Error passed in is overwritten, and that
\* object is returned.
mapError_inPlace(func, result) ==
    IF result.ok
    THEN [c |-> Return(result), calls |-> <<>>, arg |-> result]
    ELSE LET a == Invoke(func, result.value)
         IN  [c |-> IF a.c.c = "throw" THEN a.c ELSE Return(error(a.c.v)),
              calls |-> a.calls,
              arg |-> IF a.c.c = "throw" THEN result ELSE error(a.c.v)]

\* mapError(func)(result): the completion of the call, the calls of func
\* it made, and arg, the Result that was passed in as it is after the call.
mapError(func, result) ==
    IF result.ok
    THEN [c |-> Return(result), calls |-> <<>>, arg |-> result]
    ELSE LET a == Invoke(func, result.value)
         IN  [c |-> IF a.c.c = "throw" THEN a.c ELSE Return(error(a.c.v)),
              calls |-> a.calls, arg |-> result]

\* Mutant: the Result is mapped with func itself.
tapError_mapsWithCallback(func, result) == mapError(func, result)

\* tapError(func)(result)
tapError(func, result) == mapError(Tap(func), result)

\* The arguments func receives from the wrapper: `func(...args)`.
PassArgs(args) == args

\* The wrapper wrapAnyException(func) made, given the completion of
\* func(...args).
wrapAnyException(c) == catchAnyException(c)

\* Mutant: the wrapper captures every exception.
wrapGuardedException_any(c, exceptionGuard) == catchAnyException(c)

wrapGuardedException(c, exceptionGuard) ==
    catchGuardedException(c, exceptionGuard)

wrapExceptionByType(c, exceptionType) ==
    catchExceptionByType(c, exceptionType)

asyncWrapAnyException(c) == asyncCatchAnyException(c)

asyncWrapGuardedException(c, exceptionGuard) ==
    asyncCatchGuardedException(c, exceptionGuard)

asyncWrapExceptionByType(c, exceptionType) ==
    asyncCatchExceptionByType(c, exceptionType)

SyncWrappers ==
    {"wrapAnyException", "wrapGuardedException", "wrapExceptionByType"}
AsyncWrappers ==
    {"asyncWrapAnyException", "asyncWrapGuardedException",
     "asyncWrapExceptionByType"}

\* What a call of wrapper k, made with selector guard, completes with.
WrapperOutcome(k, c, guard) ==
    CASE k = "wrapAnyException" -> wrapAnyException(c)
      [] k = "wrapGuardedException" -> wrapGuardedException(c, guard)
      [] k = "wrapExceptionByType" -> wrapExceptionByType(c, guard.type)
      [] k = "asyncWrapAnyException" -> asyncWrapAnyException(c)
      [] k = "asyncWrapGuardedException" -> asyncWrapGuardedException(c, guard)
      [] k = "asyncWrapExceptionByType" -> asyncWrapExceptionByType(c, guard.type)

-----------------------------------------------------------------------------
(* Frames.                                                                 *)

\* A function of the environment: the caller's script (main), the body
\* handed to a boundary, or the thunk handed to an adapter.  escaped says
\* that the function holds the propagate capability of a boundary it
\* called and that has returned; that capability is named 0.
FuncFrame(role, scope, caps, async, promise) ==
    [k |-> "func", role |-> role, scope |-> scope, caps |-> caps,
     acc |-> Undefined, async |-> async, promise |-> promise,
     resumed |-> FALSE, failed |-> FALSE, wrapper |-> Undefined,
     escaped |-> FALSE]

\* A library function waiting for the function it called.
LibFrame(k, id, guard, promise) ==
    [k |-> k, id |-> id, guard |-> guard, promise |-> promise,
     resumed |-> FALSE]

\* A call of a wrapper, waiting for func(...args).  History: calls lists
\* the argument tuples func was called with, nth is the number of this call
\* among the wrapper's calls, before the outcome of its previous call.
WrapFrame(w, promise, args) ==
    [k |-> w.k, id |-> 0, guard |-> w.guard, promise |-> promise,
     resumed |-> FALSE, args |-> args, calls |-> <<PassArgs(args)>>,
     nth |-> w.uses + 1, before |-> w.last]

\* The wrapper function a wrap call returns.  History: uses counts its
\* calls, last is the outcome of the latest one.
Wrapper(k, guard) ==
    [t |-> "wrapper", k |-> k, guard |-> guard, uses |-> 0, last |-> None]

\* The argument list a function was called with, as its first value.
Arguments(args) == [t |-> "arguments", list |-> args]

Top == stack[Len(stack)]
Pop == SubSeq(stack, 1, Len(stack) - 1)
Running == Len(stack) > 0 /\ comp.c = "none" /\ Top.k = "func"
Delivering == Len(stack) > 0 /\ comp.c # "none"
\* Library calls in progress: adapters on the stack and boundaries, running
\* or suspended.
Depth ==
    Cardinality({i \in 1..Len(stack) : stack[i].k \notin {"func", "fallible", "asyncFallible"}})
        + Cardinality(DOMAIN live)
CanCall == Running /\ steps < MaxSteps /\ Depth < MaxDepth
\* The caller's script can call an adapter.
CanAdapt == CanCall /\ Top.role = "main" /\ steps < MaxCalls

NoEv == [e |-> "none"]

Init ==
    /\ stack = <<FuncFrame("main", 0, {}, FALSE, 0)>>
    /\ comp = None
    /\ promises = <<>>
    /\ waiting = <<>>
    /\ jobs = <<>>
    /\ live = <<>>
    /\ steps = 0
    /\ ev = NoEv

-----------------------------------------------------------------------------
(* Promises and the microtask queue.                                       *)

Settled(p, c) ==
    [promises EXCEPT ![p] =
        [state |-> IF c.c = "return" THEN "fulfilled" ELSE "rejected",
         value |-> c.v, ext |-> @.ext]]

\* The completion an await of settled promise p resumes with.
Outcome(p) ==
    IF promises[p].state = "fulfilled"
    THEN Return(promises[p].value)
    ELSE Throw(promises[p].value)

\* Mutant: settling a promise resumes every suspended frame.
Awaiting_everyone(p) == waiting

Awaiting(p) == SelectSeq(waiting, LAMBDA w : w.p = p)
StillWaiting(p) == SelectSeq(waiting, LAMBDA w : w.p # p)
Woken(p, c) ==
    [i \in 1..Len(Awaiting(p)) |-> [frame |-> Awaiting(p)[i].frame, comp |-> c]]

\* Mutant: an exception that ends an async activation before its first
\* suspension is thrown to the caller; no promise is returned.
SettleTop_throwsAtOnce(c) ==
    IF c.c = "throw" /\ ~Top.resumed
    THEN /\ stack' = Pop
         /\ comp' = c
         /\ UNCHANGED <<promises, waiting, jobs>>
    ELSE /\ promises' = Settled(Top.promise, c)
         /\ waiting' = StillWaiting(Top.promise)
         /\ jobs' = jobs \o Woken(Top.promise, c)
         /\ stack' = Pop
         /\ comp' = IF Top.resumed THEN None ELSE Return(PromiseRef(Top.promise))

\* Mutant: the promise of an async activation that completes settles, and
\* the frames awaiting it are never resumed.
SettleTop_wakesNobody(c) ==
    /\ promises' = Settled(Top.promise, c)
    /\ stack' = Pop
    /\ comp' = IF Top.resumed THEN None ELSE Return(PromiseRef(Top.promise))
    /\ UNCHANGED <<waiting, jobs>>

\* The top frame is an async activation and completes with c: its promise
\* settles, the frames awaiting it are queued, and the caller of its first
\* synchronous part receives the promise.
SettleTop(c) ==
    /\ promises' = Settled(Top.promise, c)
    /\ waiting' = StillWaiting(Top.promise)
    /\ jobs' = jobs \o Woken(Top.promise, c)
    /\ stack' = Pop
    /\ comp' = IF Top.resumed THEN None ELSE Return(PromiseRef(Top.promise))

\* Mutant: the await of a value that is no promise does not suspend; the
\* frame goes on at once with the value.
Suspend_plainValueAtOnce(v) ==
    IF v.t = "Promise"
    THEN /\ stack' = Pop
         /\ comp' = IF Top.resumed THEN None ELSE Return(PromiseRef(Top.promise))
         /\ IF promises[v.p].state = "pending"
            THEN /\ waiting' = Append(waiting,
                        [p |-> v.p, frame |-> [Top EXCEPT !.resumed = TRUE]])
                 /\ UNCHANGED jobs
            ELSE /\ jobs' = Append(jobs,
                        [frame |-> [Top EXCEPT !.resumed = TRUE],
                         comp |-> Outcome(v.p)])
                 /\ UNCHANGED waiting
    ELSE /\ stack' = [stack EXCEPT ![Len(stack)].resumed = TRUE]
         /\ comp' = Return(v)
         /\ UNCHANGED <<waiting, jobs>>

\* The top frame executes `await v`.
Suspend(v) ==
    LET f == [Top EXCEPT !.resumed = TRUE]
    IN  /\ stack' = Pop
        /\ comp' = IF Top.resumed THEN None ELSE Return(PromiseRef(Top.promise))
        /\ IF v.t = "Promise" /\ promises[v.p].state = "pending"
           THEN /\ waiting' = Append(waiting, [p |-> v.p, frame |-> f])
                /\ UNCHANGED jobs
           ELSE /\ jobs' = Append(jobs,
                    [frame |-> f,
                     comp |-> IF v.t = "Promise" THEN Outcome(v.p) ELSE Return(v)])
                /\ UNCHANGED waiting

\* Mutant: an exception in the first synchronous part of an async function
\* is thrown to the function's caller.
FinishFunc_asyncThrowsAtOnce(c) ==
    IF Top.async /\ ~(c.c = "throw" /\ ~Top.resumed)
    THEN SettleTop(c)
    ELSE /\ stack' = Pop
         /\ comp' = c
         /\ UNCHANGED <<promises, waiting, jobs>>

\* A function of the environment completes with c.
FinishFunc(c) ==
    IF Top.async
    THEN SettleTop(c)
    ELSE /\ stack' = Pop
         /\ comp' = c
         /\ UNCHANGED <<promises, waiting, jobs>>

-----------------------------------------------------------------------------
(* Statements of the environment's functions.                              *)

Stmt(op, arg, cap) ==
    [e |-> "stmt", op |-> op, arg |-> arg, cap |-> cap, depth |-> Len(stack),
     role |-> Top.role, scope |-> Top.scope, async |-> Top.async,
     resumed |-> Top.resumed,
     afterFail |-> Top.failed]

\* The current value and role of the running function.
Acc == IF Running THEN Top.acc ELSE Undefined
Role == IF Running THEN Top.role ELSE "none"

PropArgs ==
    {ok(v) : v \in OkVals} \cup {error(e) : e \in ErrVals}
        \cup (IF IsResult(Acc) THEN {Acc} ELSE {})

\* History: the sentinel thrown by a call through boundary cap's capability
\* is marked with cap and with the innermost boundary around the call.
Stamp(c, cap) ==
    IF c.c = "throw" /\ IsSentinel(c.v)
    THEN Throw([c.v EXCEPT !.cap = cap, !.scope = Top.scope])
    ELSE c

\* History: a propagate call the body makes itself, with its own
\* capability, is recorded for its boundary: the Ok results received before
\* the first Error, and that Error's payload.
NoteProp(result, cap) ==
    IF /\ Top.role = "body"
       /\ cap = Top.scope
       /\ Top.scope \in DOMAIN live
       /\ live[Top.scope].firstFail = <<>>
    THEN IF result.ok
         THEN [live EXCEPT ![Top.scope].oks = @ + 1]
         ELSE [live EXCEPT ![Top.scope].firstFail = <<result.value>>,
                           ![Top.scope].late = Top.resumed]
    ELSE live

\* History: the value the body returns is recorded for its boundary.
NoteReturn(v) ==
    IF Top.role = "body" /\ Top.scope \in DOMAIN live
    THEN [live EXCEPT ![Top.scope].ret = <<v>>]
    ELSE live

\* propagate(result), called with the capability boundary cap handed out.
PropagateStmt(result, cap) ==
    /\ Running
    /\ steps < MaxSteps
    /\ cap \in Top.caps \/ (cap = 0 /\ Top.escaped)
    /\ result \in PropArgs
    /\ LET c == Stamp(propagate(result), cap)
       IN  IF c.c = "return"
           THEN /\ stack' = [stack EXCEPT ![Len(stack)].acc = c.v,
                                          ![Len(stack)].failed = ~result.ok]
                /\ comp' = None
                /\ UNCHANGED <<promises, waiting, jobs>>
           ELSE FinishFunc(c)
    /\ live' = NoteProp(result, cap)
    /\ steps' = steps + 1
    /\ ev' = Stmt("propagate", result, cap)

\* throw x
ThrowStmt(x) ==
    /\ Running
    /\ Top.role # "main"
    /\ FinishFunc(Throw(x))
    /\ UNCHANGED <<live, steps>>
    /\ ev' = Stmt("throw", x, 0)

RetVals ==
    IF Role = "main" THEN {Undefined}
    ELSE IF Role = "body"
    THEN {ok(Num(1)), error(Str("NotInteger"))}
            \cup (IF IsResult(Acc) THEN {Acc} ELSE {})
    ELSE {Num(1), Acc}

\* return v
ReturnStmt(v) ==
    /\ Running
    /\ v \in RetVals
    /\ FinishFunc(Return(v))
    /\ live' = NoteReturn(v)
    /\ UNCHANGED steps
    /\ ev' = Stmt("return", v, 0)

FreshId == CHOOSE b \in 1..(Cardinality(DOMAIN live) + 1) : b \notin DOMAIN live
NoFail == [firstFail |-> <<>>, late |-> FALSE, oks |-> 0, ret |-> <<>>]
Forget(b) == [x \in DOMAIN live \ {b} |-> live[x]]

\* fallible(func): lines 32-33, up to the call of func(propagate).
CallFallible ==
    /\ CanCall
    /\ LET b == FreshId
       IN  /\ stack' = stack \o <<LibFrame("fallible", b, "", 0),
                                  FuncFrame("body", b, Top.caps \cup {b}, FALSE, 0)>>
           /\ live' = live @@ (b :> NoFail)
           /\ ev' = Stmt("fallible", Undefined, b)
    /\ steps' = steps + 1
    /\ UNCHANGED <<comp, promises, waiting, jobs>>

\* catchAnyException(func): up to the call of func().
CallCatchAny ==
    /\ CanCall
    /\ stack' = stack \o <<LibFrame("catchAnyException", 0, "", 0),
                           FuncFrame("thunk", Top.scope, Top.caps, FALSE, 0)>>
    /\ steps' = steps + 1
    /\ ev' = Stmt("catchAnyException", Undefined, 0)
    /\ UNCHANGED <<comp, promises, waiting, jobs, live>>

\* catchGuardedException(func, guard): up to the call of func().
CallCatchGuarded(guard) ==
    /\ CanCall
    /\ guard \in Guards \cup ThrowingGuards
    /\ stack' = stack \o <<LibFrame("catchGuardedException", 0, guard, 0),
                           FuncFrame("thunk", Top.scope, Top.caps, FALSE, 0)>>
    /\ steps' = steps + 1
    /\ ev' = Stmt("catchGuardedException", Undefined, 0)
    /\ UNCHANGED <<comp, promises, waiting, jobs, live>>

\* Classes the environment passes to the by-type adapters.
ExceptionTypes == {"TestError", "Error"}

\* catchExceptionByType(func, exceptionType): up to the call of func().
CallCatchByType(exceptionType) ==
    /\ CanAdapt
    /\ exceptionType \in ExceptionTypes
    /\ stack' = stack \o
            <<LibFrame("catchExceptionByType", 0, [fn |-> "", type |-> exceptionType], 0),
              FuncFrame("thunk", Top.scope, Top.caps, FALSE, 0)>>
    /\ steps' = steps + 1
    /\ ev' = Stmt("catchExceptionByType", Undefined, 0)
    /\ UNCHANGED <<comp, promises, waiting, jobs, live>>

Pending(ext) == [state |-> "pending", value |-> Undefined, ext |-> ext]

\* An async adapter is called: its promise is created and func() is called.
CallAsync(k, guard) ==
    /\ CanAdapt
    /\ Len(promises) < MaxPromises
    /\ promises' = Append(promises, Pending(FALSE))
    /\ stack' = stack \o <<LibFrame(k, 0, guard, Len(promises) + 1),
                           FuncFrame("thunk", Top.scope, Top.caps, FALSE, 0)>>
    /\ steps' = steps + 1
    /\ ev' = Stmt(k, Undefined, 0)
    /\ UNCHANGED <<comp, waiting, jobs, live>>

CallAsyncCatchAny == CallAsync("asyncCatchAnyException", "")

CallAsyncCatchGuarded(guard) ==
    /\ guard \in Guards \cup ThrowingGuards
    /\ CallAsync("asyncCatchGuardedException", guard)

CallAsyncCatchByType(exceptionType) ==
    /\ exceptionType \in ExceptionTypes
    /\ CallAsync("asyncCatchExceptionByType", [fn |-> "", type |-> exceptionType])

\* Selectors per wrapper: none, a guard, an exception type.
WrapperSelectors(k) ==
    IF k \in {"wrapAnyException", "asyncWrapAnyException"}
    THEN {[fn |-> "", type |-> ""]}
    ELSE IF k \in {"wrapGuardedException", "asyncWrapGuardedException"}
    THEN Guards
    ELSE {[fn |-> "", type |-> type] : type \in ExceptionTypes}

\* const wrapper = wrapX(func, selector): the script keeps the function
\* wrapX returns; func is not called.
MakeWrapper(k, guard) ==
    /\ CanAdapt
    /\ Top.wrapper = Undefined
    /\ guard \in WrapperSelectors(k)
    /\ stack' = [stack EXCEPT ![Len(stack)].wrapper = Wrapper(k, guard)]
    /\ ev' = Stmt("wrap", Wrapper(k, guard), 0)
    /\ UNCHANGED <<comp, promises, waiting, jobs, live, steps>>

\* Argument tuples the script calls its wrapper with.
ArgTuples == {<<>>, <<Num(1), Num(2)>>}

\* wrapper(...args): up to the call of func(...args).
CallWrapper(args) ==
    /\ CanAdapt
    /\ Top.wrapper # Undefined
    /\ LET w == Top.wrapper
           async == w.k \in AsyncWrappers
           p == IF async THEN Len(promises) + 1 ELSE 0
       IN  /\ async => Len(promises) < MaxPromises
           /\ promises' = IF async THEN Append(promises, Pending(FALSE))
                                    ELSE promises
           /\ stack' = [stack EXCEPT ![Len(stack)].wrapper.uses = @ + 1]
                \o <<WrapFrame(w, p, args),
                     [FuncFrame("thunk", Top.scope, Top.caps, FALSE, 0)
                        EXCEPT !.acc = Arguments(PassArgs(args))]>>
           /\ ev' = Stmt("call wrapper", w, 0)
    /\ steps' = steps + 1
    /\ UNCHANGED <<comp, waiting, jobs, live>>

\* Argument lists the environment calls ok and error with: none, a plain
\* value, undefined, or a Result as the payload.
PayloadArgs ==
    {<<>>, <<Undefined>>, <<Num(1)>>, <<ok(Num(1))>>, <<error(Str("hello"))>>}

\* The value parameter of ok and error: undefined when no argument is given.
Param(args) == IF args = <<>> THEN Undefined ELSE args[1]

\* ok(...args) or error(...args), kept as the function's current value.
ConstructStmt(ctor, args) ==
    /\ Running
    /\ steps < MaxSteps
    /\ ctor \in {"ok", "error"}
    /\ args \in PayloadArgs
    /\ LET result == IF ctor = "ok" THEN ok(Param(args)) ELSE error(Param(args))
       IN  /\ stack' = [stack EXCEPT ![Len(stack)].acc = result]
           /\ ev' = [e |-> "done", k |-> ctor, args |-> args,
                     out |-> Return(result), depth |-> Len(stack)]
    /\ steps' = steps + 1
    /\ UNCHANGED <<comp, promises, waiting, jobs, live>>

\* Results the environment hands to mapError and tapError: its current
\* value, or a new Ok or Error.
ResultArgs ==
    {ok(Str("hello")), error(Str("hello"))}
        \cup (IF IsResult(Acc) THEN {Acc} ELSE {})

\* History: a call of mapError(func) or tapError(func) completed.  prev
\* describes the mapError call that made this call's argument, if one did.
Mapped(k, func, result, m) ==
    [e |-> "done", k |-> k, func |-> func, in |-> result, out |-> m.c,
     calls |-> m.calls, after |-> m.arg, depth |-> Len(stack),
     prev |-> IF /\ ev.e = "done"
                 /\ ev.k = "mapError"
                 /\ ev.depth = Len(stack)
                 /\ ev.out = Return(result)
                 /\ result = Acc
              THEN <<[func |-> ev.func, in |-> ev.in]>>
              ELSE <<>>]

\* A call of a combinator completes with m.c in the running function.
Combine(m) ==
    IF m.c.c = "return"
    THEN /\ stack' = [stack EXCEPT ![Len(stack)].acc = m.c.v]
         /\ comp' = None
         /\ UNCHANGED <<promises, waiting, jobs>>
    ELSE FinishFunc(m.c)

\* mapError(func)(result)
MapErrorStmt(func, result) ==
    /\ Running
    /\ steps < MaxSteps
    /\ func \in Mappers
    /\ result \in ResultArgs
    /\ Combine(mapError(func, result))
    /\ steps' = steps + 1
    /\ ev' = Mapped("mapError", func, result, mapError(func, result))
    /\ UNCHANGED live

\* tapError(func)(result)
TapErrorStmt(func, result) ==
    /\ Running
    /\ steps < MaxSteps
    /\ func \in Mappers
    /\ result \in ResultArgs
    /\ Combine(tapError(func, result))
    /\ steps' = steps + 1
    /\ ev' = Mapped("tapError", func, result, tapError(func, result))
    /\ UNCHANGED live

\* What the awaitables returned by thunks settle with.
AwaitableOutcomes == {Return(Num(123))} \cup {Throw(x) : x \in TypedThrowVals}

\* return of an awaitable: Promise.resolve(v), Promise.reject(x), or, with
\* no completion c, a promise that is still pending.
ReturnAwaitable(c) ==
    /\ Running
    /\ Top.role = "thunk"
    /\ Len(promises) < MaxPromises
    /\ promises' = Append(promises,
            IF c.c = "none" THEN Pending(TRUE)
            ELSE [state |-> IF c.c = "return" THEN "fulfilled" ELSE "rejected",
                  value |-> c.v, ext |-> TRUE])
    /\ stack' = Pop
    /\ comp' = Return(PromiseRef(Len(promises) + 1))
    /\ ev' = Stmt("return", PromiseRef(Len(promises) + 1), 0)
    /\ UNCHANGED <<waiting, jobs, live, steps>>

\* asyncFallible(func): lines 54-55, up to the call of func(propagate).
\* The body is an async function or a plain one.
CallAsyncFallible(async) ==
    /\ CanCall
    /\ Top.role = "main" \/ Top.async
    /\ LET b == FreshId
           p == Len(promises) + 1
       IN  /\ promises' = promises \o <<Pending(FALSE)>>
                            \o (IF async THEN <<Pending(FALSE)>> ELSE <<>>)
           /\ stack' = stack \o
                <<LibFrame("asyncFallible", b, "", p),
                  FuncFrame("body", b, Top.caps \cup {b}, async,
                            IF async THEN p + 1 ELSE 0)>>
           /\ live' = live @@ (b :> NoFail)
           /\ ev' = Stmt("asyncFallible", Undefined, b)
    /\ steps' = steps + 1
    /\ UNCHANGED <<comp, waiting, jobs>>

\* The body calls an async function of the environment and does not await
\* it.  The function holds the body's capabilities; it runs up to its
\* first await and goes on as a microtask, detached from the body.
CallDetached ==
    /\ Running
    /\ Top.role = "body"
    /\ steps < MaxSteps
    /\ promises' = Append(promises, Pending(FALSE))
    /\ stack' = Append(stack,
            FuncFrame("detached", Top.scope, Top.caps, TRUE, Len(promises) + 1))
    /\ steps' = steps + 1
    /\ ev' = Stmt("detach", Undefined, 0)
    /\ UNCHANGED <<comp, waiting, jobs, live>>

\* What the steps awaited by the environment's functions settle with.
StepOutcomes ==
    {Return(ok(Num(1))), Return(error(Str("InvalidJSON"))), Throw(TestError(2))}

\* await of an asynchronous step that has already settled with c.
AwaitSettled(c) ==
    /\ Running
    /\ Top.async
    /\ steps < MaxSteps
    /\ c \in StepOutcomes
    /\ stack' = Pop
    /\ comp' = IF Top.resumed THEN None ELSE Return(PromiseRef(Top.promise))
    /\ jobs' = Append(jobs, [frame |-> [Top EXCEPT !.resumed = TRUE], comp |-> c])
    /\ steps' = steps + 1
    /\ ev' = Stmt("await", c.v, 0)
    /\ UNCHANGED <<promises, waiting, live>>

\* Mutant: the await of a pending step registers the continuation and the
\* function goes on running without waiting for the step.
AwaitPending_goesOn ==
    /\ Running
    /\ Top.async
    /\ steps < MaxSteps
    /\ promises' = Append(promises, Pending(TRUE))
    /\ waiting' = Append(waiting,
            [p |-> Len(promises) + 1, frame |-> [Top EXCEPT !.resumed = TRUE]])
    /\ steps' = steps + 1
    /\ ev' = Stmt("await", Undefined, 0)
    /\ UNCHANGED <<stack, comp, jobs, live>>

\* await of an asynchronous step that is still pending.
AwaitPending ==
    /\ Running
    /\ Top.async
    /\ steps < MaxSteps
    /\ promises' = Append(promises, Pending(TRUE))
    /\ stack' = Pop
    /\ comp' = IF Top.resumed THEN None ELSE Return(PromiseRef(Top.promise))
    /\ waiting' = Append(waiting,
            [p |-> Len(promises) + 1, frame |-> [Top EXCEPT !.resumed = TRUE]])
    /\ steps' = steps + 1
    /\ ev' = Stmt("await", Undefined, 0)
    /\ UNCHANGED <<jobs, live>>

\* await of the function's current value, the promise of a nested
\* asyncFallible call.
AwaitAcc ==
    /\ Running
    /\ Top.async
    /\ Top.acc.t = "Promise"
    /\ steps < MaxSteps
    /\ Suspend(Top.acc)
    /\ steps' = steps + 1
    /\ ev' = Stmt("await", Top.acc, 0)
    /\ UNCHANGED <<promises, live>>

-----------------------------------------------------------------------------
(* Completions arriving at a frame.                                        *)

Done(in, out) ==
    [e |-> "done", k |-> Top.k, id |-> Top.id, guard |-> Top.guard,
     promise |-> Top.promise, resumed |-> Top.resumed,
     in |-> in, out |-> out,
     hist |-> IF Top.id \in DOMAIN live THEN live[Top.id] ELSE NoFail,
     guardCalls |-> GuardCalls(Top.k, in),
     depth |-> Len(stack)]

\* A call made by a function of the environment completes: its value is
\* the function's current value; its exception leaves the function.
DeliverFunc ==
    /\ Delivering
    /\ Top.k = "func"
    /\ IF comp.c = "return"
       THEN /\ stack' = [stack EXCEPT ![Len(stack)].acc = comp.v]
            /\ comp' = None
            /\ UNCHANGED <<promises, waiting, jobs>>
       ELSE FinishFunc(comp)
    /\ ev' = NoEv
    /\ UNCHANGED <<live, steps>>

\* fallible: lines 33-40, from the completion of func(propagate).
FallibleDone ==
    /\ Delivering
    /\ Top.k = "fallible"
    /\ stack' = [Pop EXCEPT ![Len(stack) - 1].escaped = TRUE]
    /\ comp' = fallible(comp)
    /\ live' = Forget(Top.id)
    /\ ev' = Done(comp, fallible(comp))
    /\ UNCHANGED <<promises, waiting, jobs, steps>>

CatchAnyDone ==
    /\ Delivering
    /\ Top.k = "catchAnyException"
    /\ stack' = Pop
    /\ comp' = catchAnyException(comp)
    /\ ev' = Done(comp, catchAnyException(comp))
    /\ UNCHANGED <<promises, waiting, jobs, live, steps>>

CatchGuardedDone ==
    /\ Delivering
    /\ Top.k = "catchGuardedException"
    /\ stack' = Pop
    /\ comp' = catchGuardedException(comp, Top.guard)
    /\ ev' = Done(comp, catchGuardedException(comp, Top.guard))
    /\ UNCHANGED <<promises, waiting, jobs, live, steps>>

CatchByTypeDone ==
    /\ Delivering
    /\ Top.k = "catchExceptionByType"
    /\ stack' = Pop
    /\ comp' = catchExceptionByType(comp, Top.guard.type)
    /\ ev' = Done(comp, catchExceptionByType(comp, Top.guard.type))
    /\ UNCHANGED <<promises, waiting, jobs, live, steps>>

\* asyncFallible: line 55, the await of what func(propagate) returned.
AsyncFallibleAwait ==
    /\ Delivering
    /\ Top.k = "asyncFallible"
    /\ ~Top.resumed
    /\ comp.c = "return"
    /\ Suspend(comp.v)
    /\ ev' = [e |-> "await", k |-> "asyncFallible", id |-> Top.id,
              promise |-> Top.promise, in |-> comp]
    /\ UNCHANGED <<promises, live, steps>>

\* asyncFallible: lines 55-62, from the completion of the await, or from
\* the exception func(propagate) threw before returning.
AsyncFallibleDone ==
    /\ Delivering
    /\ Top.k = "asyncFallible"
    /\ Top.resumed \/ comp.c = "throw"
    /\ SettleTop(asyncFallible(comp))
    /\ live' = Forget(Top.id)
    /\ ev' = Done(comp, asyncFallible(comp))
    /\ UNCHANGED steps

AsyncAdapters ==
    {"asyncCatchAnyException", "asyncCatchGuardedException",
     "asyncCatchExceptionByType"}

\* An async adapter: the await of what func() returned.
AsyncCatchAwait ==
    /\ Delivering
    /\ Top.k \in AsyncAdapters \cup AsyncWrappers
    /\ ~Top.resumed
    /\ comp.c = "return"
    /\ Suspend(comp.v)
    /\ ev' = [e |-> "await", k |-> Top.k, id |-> 0,
              promise |-> Top.promise, in |-> comp]
    /\ UNCHANGED <<promises, live, steps>>

\* An async adapter completes with out, from the completion of the await
\* or from the exception func() threw before returning.
AsyncDone(k, out) ==
    /\ Delivering
    /\ Top.k = k
    /\ Top.resumed \/ comp.c = "throw"
    /\ SettleTop(out)
    /\ ev' = Done(comp, out)
    /\ UNCHANGED <<live, steps>>

AsyncCatchAnyDone ==
    AsyncDone("asyncCatchAnyException", asyncCatchAnyException(comp))

AsyncCatchGuardedDone ==
    AsyncDone("asyncCatchGuardedException",
              asyncCatchGuardedException(comp, Top.guard))

AsyncCatchByTypeDone ==
    AsyncDone("asyncCatchExceptionByType",
              asyncCatchExceptionByType(comp, Top.guard.type))

\* History: a call of a wrapper completed.
WrapDone(in, out) ==
    [e |-> "done", k |-> Top.k, id |-> 0, guard |-> Top.guard,
     promise |-> Top.promise, resumed |-> Top.resumed,
     in |-> in, out |-> out, hist |-> NoFail, depth |-> Len(stack),
     args |-> Top.args, calls |-> Top.calls, nth |-> Top.nth,
     before |-> Top.before]

\* A call of a wrapper made by wrapAnyException, wrapGuardedException or
\* wrapExceptionByType completes.
SyncWrapperDone ==
    /\ Delivering
    /\ Top.k \in SyncWrappers
    /\ LET out == WrapperOutcome(Top.k, comp, Top.guard)
       IN  /\ stack' = [Pop EXCEPT ![Len(stack) - 1].wrapper.last = out]
           /\ comp' = out
           /\ ev' = WrapDone(comp, out)
    /\ UNCHANGED <<promises, waiting, jobs, live, steps>>

\* A call of a wrapper made by an async wrap function completes.
AsyncWrapperDone ==
    /\ Delivering
    /\ Top.k \in AsyncWrappers
    /\ Top.resumed \/ comp.c = "throw"
    /\ LET out == WrapperOutcome(Top.k, comp, Top.guard)
       IN  /\ SettleTop(out)
           /\ ev' = WrapDone(comp, out)
    /\ UNCHANGED <<live, steps>>

\* The event loop runs the next microtask: a suspended frame resumes.
RunJob ==
    /\ Len(stack) = 0
    /\ comp.c = "none"
    /\ jobs # <<>>
    /\ stack' = <<Head(jobs).frame>>
    /\ comp' = Head(jobs).comp
    /\ jobs' = Tail(jobs)
    /\ ev' = NoEv
    /\ UNCHANGED <<promises, waiting, live, steps>>

\* A pending asynchronous step settles while the program is idle.
EnvSettle(p, c) ==
    /\ Len(stack) = 0
    /\ comp.c = "none"
    /\ jobs = <<>>
    /\ promises[p].ext
    /\ promises[p].state = "pending"
    /\ promises' = Settled(p, c)
    /\ waiting' = StillWaiting(p)
    /\ jobs' = Woken(p, c)
    /\ ev' = NoEv
    /\ UNCHANGED <<stack, comp, live, steps>>

\* An exception nobody caught leaves the caller's script.
Uncaught ==
    /\ Len(stack) = 0
    /\ comp.c # "none"
    /\ comp' = None
    /\ ev' = [e |-> "uncaught", v |-> comp.v]
    /\ UNCHANGED <<stack, promises, waiting, jobs, live, steps>>

Next ==
    \/ \E cap \in DOMAIN live \cup {0} :
            \E result \in PropArgs : PropagateStmt(result, cap)
    \/ \E x \in ThrowVals : ThrowStmt(x)
    \/ \E v \in RetVals : ReturnStmt(v)
    \/ CallFallible
    \/ CallCatchAny
    \/ \E guard \in Guards : CallCatchGuarded(guard)
    \/ \E async \in BOOLEAN : CallAsyncFallible(async)
    \/ \E c \in StepOutcomes : AwaitSettled(c)
    \/ AwaitPending
    \/ AwaitAcc
    \/ DeliverFunc
    \/ AsyncFallibleAwait
    \/ AsyncFallibleDone
    \/ RunJob
    \/ \E p \in DOMAIN promises : \E c \in StepOutcomes : EnvSettle(p, c)
    \/ FallibleDone
    \/ CatchAnyDone
    \/ CatchGuardedDone
    \/ Uncaught

Spec == Init /\ [][Next]_vars

\* The by-type and the async adapters on their own: the caller's script
\* calls them with thunks that return, throw or return an awaitable.
NextAdapters ==
    \/ \E x \in TypedThrowVals : ThrowStmt(x)
    \/ \E v \in RetVals : ReturnStmt(v)
    \/ \E exceptionType \in ExceptionTypes : CallCatchByType(exceptionType)
    \/ DeliverFunc
    \/ CatchByTypeDone
    \/ CallAsyncCatchAny
    \/ \E guard \in Guards : CallAsyncCatchGuarded(guard)
    \/ \E exceptionType \in ExceptionTypes : CallAsyncCatchByType(exceptionType)
    \/ \E c \in AwaitableOutcomes \cup {None} : ReturnAwaitable(c)
    \/ AsyncCatchAwait
    \/ AsyncCatchAnyDone
    \/ AsyncCatchGuardedDone
    \/ AsyncCatchByTypeDone
    \/ RunJob
    \/ \E p \in DOMAIN promises : \E c \in AwaitableOutcomes : EnvSettle(p, c)
    \/ Uncaught

SpecAdapters == Init /\ [][NextAdapters]_vars

\* The guarded adapters called by a script, with guards that answer and a
\* guard that throws.
NextGuards ==
    \/ \E x \in ThrowVals : ThrowStmt(x)
    \/ \E v \in RetVals : ReturnStmt(v)
    \/ \E guard \in Guards \cup ThrowingGuards : CallCatchGuarded(guard)
    \/ \E guard \in Guards \cup ThrowingGuards : CallAsyncCatchGuarded(guard)
    \/ \E c \in AwaitableOutcomes \cup {None} : ReturnAwaitable(c)
    \/ DeliverFunc
    \/ CatchGuardedDone
    \/ AsyncCatchAwait
    \/ AsyncCatchGuardedDone
    \/ RunJob
    \/ \E p \in DOMAIN promises : \E c \in AwaitableOutcomes : EnvSettle(p, c)
    \/ Uncaught

SpecGuards == Init /\ [][NextGuards]_vars

\* The state in which the caller's script has called asyncFallible with an
\* async body, the body awaits a step that is still pending, and the script
\* holds the promise asyncFallible returned.
InitAsync ==
    /\ stack = <<[FuncFrame("main", 0, {}, FALSE, 0)
                    EXCEPT !.acc = PromiseRef(1)]>>
    /\ comp = None
    /\ promises = <<Pending(FALSE), Pending(FALSE), Pending(TRUE)>>
    /\ waiting =
        <<[p |-> 3, frame |-> [FuncFrame("body", 1, {1}, TRUE, 2)
                                EXCEPT !.resumed = TRUE]],
          [p |-> 2, frame |-> [LibFrame("asyncFallible", 1, "", 1)
                                EXCEPT !.resumed = TRUE]]>>
    /\ jobs = <<>>
    /\ live = (1 :> NoFail)
    /\ steps = 0
    /\ ev = NoEv

\* The capabilities the running function holds.
Caps == IF Running THEN Top.caps \cup {0} ELSE {}

\* Statements and completions shared by the asynchronous scenarios.
NextSteps ==
    \/ \E cap \in Caps : \E result \in PropArgs : PropagateStmt(result, cap)
    \/ \E x \in ThrowVals : ThrowStmt(x)
    \/ \E v \in RetVals : ReturnStmt(v)
    \/ \E c \in StepOutcomes : AwaitSettled(c)
    \/ AwaitPending
    \/ DeliverFunc
    \/ AsyncFallibleDone
    \/ RunJob
    \/ Uncaught

\* Steps of the program itself: the script starts further asyncFallible
\* boundaries whose async bodies interleave at their awaits.
NextProgram ==
    \/ NextSteps
    \/ Role = "main" /\ CallAsyncFallible(TRUE)
    \/ AsyncFallibleAwait

\* The awaited steps settle when the environment pleases.
NextAsync ==
    \/ NextProgram
    \/ \E p \in DOMAIN promises : \E c \in StepOutcomes : EnvSettle(p, c)

SpecAsync == InitAsync /\ [][NextAsync]_vars

\* The engine runs the program to completion: a function that can take a
\* step takes one, and a queued microtask is run.  Nothing obliges the
\* environment to settle a pending step.
SpecAsyncLive == SpecAsync /\ WF_vars(NextProgram)

\* The body of an asyncFallible boundary starts functions it does not await.
NextDetached ==
    \/ NextSteps
    \/ CallDetached
    \/ \E p \in DOMAIN promises : \E c \in StepOutcomes : EnvSettle(p, c)

SpecDetached == InitAsync /\ [][NextDetached]_vars

\* The constructors and the combinators on their own: the caller's script
\* and the bodies it hands to fallible make Results with ok and error and
\* hand them to mapError, tapError and propagate.
NextCombinators ==
    \/ \E ctor \in {"ok", "error"} : \E args \in PayloadArgs : ConstructStmt(ctor, args)
    \/ \E func \in Mappers : \E result \in ResultArgs : MapErrorStmt(func, result)
    \/ \E func \in Mappers : \E result \in ResultArgs : TapErrorStmt(func, result)
    \/ \E cap \in DOMAIN live \cup {0} :
            \E result \in PropArgs : PropagateStmt(result, cap)
    \/ \E v \in RetVals : ReturnStmt(v)
    \/ CallFallible
    \/ DeliverFunc
    \/ FallibleDone
    \/ Uncaught

SpecCombinators == Init /\ [][NextCombinators]_vars

\* The wrappers on their own: the caller's script makes a wrapper of a
\* function that returns, throws or returns an awaitable, and calls it.
NextWrappers ==
    \/ \E k \in SyncWrappers \cup AsyncWrappers :
            \E guard \in WrapperSelectors(k) : MakeWrapper(k, guard)
    \/ \E args \in ArgTuples : CallWrapper(args)
    \/ \E x \in TypedThrowVals : ThrowStmt(x)
    \/ \E v \in RetVals : ReturnStmt(v)
    \/ \E c \in AwaitableOutcomes \cup {None} : ReturnAwaitable(c)
    \/ DeliverFunc
    \/ SyncWrapperDone
    \/ AsyncCatchAwait
    \/ AsyncWrapperDone
    \/ RunJob
    \/ \E p \in DOMAIN promises : \E c \in AwaitableOutcomes : EnvSettle(p, c)
    \/ Uncaught

SpecWrappers == Init /\ [][NextWrappers]_vars

-----------------------------------------------------------------------------
(* The claims.  ev describes the step that led to the state: a statement   *)
(* of the environment, or a library call that completed (ev.in is the      *)
(* completion it received from the function it called, ev.out the one it   *)
(* produced, ev.hist what its body did).                                   *)

IsStmt(op) == ev.e = "stmt" /\ ev.op = op
IsDone(k) == ev.e = "done" /\ ev.k = k
Failed == ev.hist.firstFail # <<>>
FirstError == error(ev.hist.firstFail[1])
Fulfilled(p, v) == promises[p].state = "fulfilled" /\ promises[p].value = v
Rejected(p, v) == promises[p].state = "rejected" /\ promises[p].value = v

\* C1: when the body of fallible calls propagate(error(e)), fallible returns
\* error(e) for the first such call in program order, and the body executes
\* no statement after that call: the call does not return to the body.
C1_FirstFailureWins ==
    /\ (IsDone("fallible") /\ Failed) => (ev.out = Return(FirstError) /\ comp = ev.out)
    /\ ev.e = "stmt" => ~ev.afterFail
    /\ (IsStmt("propagate") /\ ~ev.arg.ok /\ ~ev.async) =>
            (Len(stack) = ev.depth - 1 /\ comp.c = "throw")

\* C1 witness: fallible returned after its body's second propagate call
\* failed, the first having received an Ok.
C1_Witness ==
    /\ IsDone("fallible")
    /\ ev.hist.oks = 1
    /\ ev.hist.firstFail = <<Str("NotInteger")>>
    /\ comp = Return(error(Str("NotInteger")))

\* C2: propagate(ok(v)) in the body of fallible or asyncFallible returns v
\* to the body and throws nothing, the body goes on, and the boundary's
\* result is what the body later returns.
C2_OkReturnsValue ==
    /\ (IsStmt("propagate") /\ ev.arg.ok) =>
            /\ comp = None
            /\ Len(stack) = ev.depth
            /\ Top.k = "func"
            /\ Top.acc = ev.arg.value
    /\ (IsDone("fallible") /\ ev.hist.oks > 0 /\ ev.hist.ret # <<>>) =>
            comp = Return(ev.hist.ret[1])
    /\ (IsDone("asyncFallible") /\ ev.hist.oks > 0 /\ ev.hist.ret # <<>>) =>
            Fulfilled(ev.promise, ev.hist.ret[1])

\* C2 witness: an asyncFallible body received an Ok from propagate after it
\* had resumed, went on, and returned.
C2_Witness ==
    /\ IsDone("asyncFallible")
    /\ ev.hist.oks = 1
    /\ ev.hist.ret = <<ok(Num(1))>>
    /\ ev.resumed

\* C3: a propagate(error(e)) that an asyncFallible body executes after it
\* suspended and resumed is caught by that asyncFallible call: its promise
\* fulfils with error(e), and the body runs no further.
C3_LateFailureCaught ==
    /\ (IsDone("asyncFallible") /\ Failed /\ ev.hist.late) =>
            /\ ev.out = Return(FirstError)
            /\ Fulfilled(ev.promise, FirstError)
    /\ (IsStmt("propagate") /\ ~ev.arg.ok /\ ev.resumed) =>
            (stack = <<>> /\ ~ev.afterFail)

\* C3 witness: asyncFallible's promise fulfilled with the Error that its
\* body propagated after an await.
C3_Witness ==
    /\ IsDone("asyncFallible")
    /\ ev.hist.late
    /\ ev.hist.firstFail = <<Str("InvalidJSON")>>
    /\ Fulfilled(ev.promise, error(Str("InvalidJSON")))

\* C4: when the body returns a Result r and no propagate call received an
\* Error, fallible returns r, and asyncFallible's promise fulfils with r.
C4_BodyResultVerbatim ==
    /\ (IsDone("fallible") /\ ~Failed /\ ev.hist.ret # <<>>) =>
            (ev.out = Return(ev.hist.ret[1]) /\ comp = ev.out)
    /\ (IsDone("asyncFallible") /\ ~Failed /\ ev.hist.ret # <<>>) =>
            /\ ev.out = Return(ev.hist.ret[1])
            /\ Fulfilled(ev.promise, ev.hist.ret[1])

\* C4 witness: fallible returned the Error result its body returned.
C4_Witness ==
    /\ IsDone("fallible")
    /\ ev.hist.ret = <<error(Str("NotInteger"))>>
    /\ comp = Return(error(Str("NotInteger")))

\* C5: a value that is no sentinel, thrown inside the body, is not turned
\* into a Result: fallible throws that value, and asyncFallible's promise
\* rejects with it.
C5_OtherExceptionsEscape ==
    /\ (IsDone("fallible") /\ ev.in.c = "throw" /\ ~IsSentinel(ev.in.v)) =>
            (ev.out = Throw(ev.in.v) /\ comp = ev.out)
    /\ (IsDone("asyncFallible") /\ ev.in.c = "throw" /\ ~IsSentinel(ev.in.v)) =>
            /\ ev.out = Throw(ev.in.v)
            /\ Rejected(ev.promise, ev.in.v)

\* C5 witness: the promise of asyncFallible rejected with the error object
\* that a step awaited by the body rejected with.
C5_Witness ==
    /\ IsDone("asyncFallible")
    /\ ev.resumed
    /\ ev.in = Throw(TestError(2))
    /\ Rejected(ev.promise, TestError(2))

\* C6: a boundary converts into an Error only the sentinel made by a call of
\* its own capability: called while an inner body executes, the outer
\* capability's sentinel is not converted by the inner boundary.
C6_OnlyOwnSentinel ==
    (/\ ev.e = "done"
     /\ ev.k \in {"fallible", "asyncFallible"}
     /\ ev.in.c = "throw"
     /\ IsSentinel(ev.in.v)
     /\ ev.out.c = "return")
        => ev.in.v.cap = ev.id

\* C7: a sentinel made with the innermost body's own capability is consumed
\* by the nearest boundary around the call, whatever its payload: that
\* boundary returns error(payload) as a value to its caller, which goes on,
\* and no other boundary receives the sentinel.
C7_NearestBoundaryConsumes ==
    (/\ IsDone("fallible")
     /\ ev.in.c = "throw"
     /\ IsSentinel(ev.in.v)
     /\ ev.in.v.cap = ev.in.v.scope)
        => /\ ev.in.v.scope = ev.id
           /\ ev.out = Return(error(ev.in.v.value))
           /\ comp = ev.out
           /\ Len(stack) = ev.depth - 1
           /\ Top.k = "func"

\* C7 witness: the inner of two nested boundaries consumed a sentinel whose
\* payload is itself a sentinel object, and the outer body is to go on.
C7_Witness ==
    /\ IsDone("fallible")
    /\ ev.id = 2
    /\ ev.in.c = "throw"
    /\ IsSentinel(ev.in.v)
    /\ ev.in.v.cap = 2
    /\ IsSentinel(ev.in.v.value)
    /\ comp = Return(error(StaleSentinel))
    /\ Top.role = "body"

\* A sentinel made inside boundary b, or a Result carrying one.
CarriesSentinelOf(v, b) ==
    \/ IsSentinel(v) /\ v.scope = b
    \/ IsResult(v) /\ IsSentinel(v.value) /\ v.value.scope = b

\* C8: the sentinel is never observed outside the boundary around the
\* propagate call that made it: nothing a boundary returns, fulfils with,
\* throws or rejects with is that sentinel or a Result carrying it.
C8_SentinelNeverEscapes ==
    (ev.e = "done" /\ ev.k \in {"fallible", "asyncFallible"})
        => ~CarriesSentinelOf(ev.out.v, ev.id)

\* C9: catchAnyException never throws: it returns ok(v) when func returns v
\* and error(x), with the thrown value itself, when func throws x.
C9_CatchAnyNeverThrows ==
    IsDone("catchAnyException") =>
        /\ comp = ev.out
        /\ ev.out.c = "return"
        /\ ev.in.c = "return" => ev.out.v = ok(ev.in.v)
        /\ ev.in.c = "throw" => ev.out.v = error(ev.in.v)

\* C9 witness: catchAnyException returned error(123) for a thrown number.
C9_Witness ==
    /\ IsDone("catchAnyException")
    /\ ev.in = Throw(Num(123))
    /\ comp = Return(error(Num(123)))

\* C10: catchGuardedException returns ok(v) when func returns v, error(x)
\* when func throws x and the guard holds of x, and throws x itself when
\* the guard does not hold of x.
C10_GuardOrRethrow ==
    (IsDone("catchGuardedException") /\ ev.guard.fn = "isNumber") =>
        /\ comp = ev.out
        /\ ev.in.c = "return" => ev.out = Return(ok(ev.in.v))
        /\ (ev.in.c = "throw" /\ ev.in.v.t = "number") =>
                ev.out = Return(error(ev.in.v))
        /\ (ev.in.c = "throw" /\ ev.in.v.t # "number") =>
                ev.out = Throw(ev.in.v)

\* C10 witness: the guard isNumber did not hold of the thrown error object,
\* and catchGuardedException threw that object.
C10_Witness ==
    /\ IsDone("catchGuardedException")
    /\ ev.in = Throw(TestError(1))
    /\ comp = Throw(TestError(1))

\* C11: catchExceptionByType(func, T) returns error(x) when func throws an
\* instance x of T or of a class extending T, throws x itself when func
\* throws anything else, a primitive included, and has the outcome of
\* catchGuardedException with the guard `x instanceof T`.
C11_ByTypeCapturesInstances ==
    IsDone("catchExceptionByType") =>
        LET T == ev.guard.type
            x == ev.in.v
        IN  /\ comp = ev.out
            /\ ev.in.c = "return" => ev.out = Return(ok(x))
            /\ ev.in.c = "throw" =>
                    IF x.t = "object" /\ IsSubclass(x.class, T)
                    THEN ev.out = Return(error(x))
                    ELSE ev.out = Throw(x)
            /\ ev.out = catchGuardedException(ev.in, instanceOfGuard(T))

\* C11 witness: the type is Error, func threw an instance of the class
\* TestError, which extends Error, and it came back as an Error result.
C11_Witness ==
    /\ IsDone("catchExceptionByType")
    /\ ev.guard.type = "Error"
    /\ ev.in = Throw(TestError(1))
    /\ comp = Return(error(TestError(1)))

\* C12: an async adapter treats the exception x that func() threw before
\* returning and the rejection x of the awaitable func() returned alike:
\* the promise of asyncCatchGuardedException or asyncCatchExceptionByType
\* is fulfilled with error(x) when the guard or the type matches x and is
\* rejected with x itself when it does not; the promise of
\* asyncCatchAnyException is fulfilled with error(x); and with no exception
\* the promise is fulfilled with ok(v), v the awaited value.
C12_AsyncSameOutcome ==
    (ev.e = "done" /\ ev.k \in AsyncAdapters) =>
        LET x == ev.in.v
            matches ==
                CASE ev.k = "asyncCatchAnyException" -> TRUE
                  [] ev.k = "asyncCatchGuardedException" -> x.t = "number"
                  [] OTHER -> x.t = "object" /\ IsSubclass(x.class, ev.guard.type)
        IN  /\ ev.in.c = "return" =>
                    x.t # "Promise" /\ Fulfilled(ev.promise, ok(x))
            /\ (ev.in.c = "throw" /\ matches) => Fulfilled(ev.promise, error(x))
            /\ (ev.in.c = "throw" /\ ~matches) => Rejected(ev.promise, x)
            /\ ev.in.c = "throw" \/ ev.resumed

\* C12 witness: the awaitable func() returned was rejected with an error
\* object after asyncCatchGuardedException had suspended, the guard did not
\* match, and the adapter's promise is rejected with that object.
C12_Witness ==
    /\ IsDone("asyncCatchGuardedException")
    /\ ev.resumed
    /\ ev.in = Throw(TestError(1))
    /\ Rejected(ev.promise, TestError(1))

\* C13: making a wrapper calls nothing; each call of the wrapper calls func
\* once, with the arguments the wrapper was called with, and completes as
\* the adapter of the same policy completes for a thunk with func's
\* outcome: the same ok value, the same error payload or the same rethrown
\* value, for an async wrapper as the settlement of its promise; and that
\* holds of every call of one wrapper, whatever its earlier calls did.
C13_WrapperAsAdapter ==
    /\ IsStmt("wrap") =>
            /\ Len(stack) = ev.depth
            /\ comp = None
            /\ Top.wrapper.uses = 0
    /\ (ev.e = "done" /\ ev.k \in SyncWrappers \cup AsyncWrappers) =>
            LET adapter ==
                    CASE ev.k = "wrapAnyException" ->
                            catchAnyException(ev.in)
                      [] ev.k = "wrapGuardedException" ->
                            catchGuardedException(ev.in, ev.guard)
                      [] ev.k = "wrapExceptionByType" ->
                            catchExceptionByType(ev.in, ev.guard.type)
                      [] ev.k = "asyncWrapAnyException" ->
                            asyncCatchAnyException(ev.in)
                      [] ev.k = "asyncWrapGuardedException" ->
                            asyncCatchGuardedException(ev.in, ev.guard)
                      [] ev.k = "asyncWrapExceptionByType" ->
                            asyncCatchExceptionByType(ev.in, ev.guard.type)
            IN  /\ ev.calls = <<ev.args>>
                /\ ev.in.v.t = "arguments" => ev.in.v.list = ev.args
                /\ ev.out = adapter
                /\ ev.k \in SyncWrappers => comp = adapter
                /\ ev.k \in AsyncWrappers =>
                        IF adapter.c = "return"
                        THEN Fulfilled(ev.promise, adapter.v)
                        ELSE Rejected(ev.promise, adapter.v)

\* C13 witness: the second call of a wrapper made by wrapGuardedException
\* rethrew the error object func threw, after its first call had returned
\* an Ok result.
C13_Witness ==
    /\ IsDone("wrapGuardedException")
    /\ ev.nth = 2
    /\ ev.before.c = "return"
    /\ ev.before.v.ok
    /\ ev.args = <<Num(1), Num(2)>>
    /\ ev.in = Throw(TestError(1))
    /\ comp = Throw(TestError(1))

\* C14: mapError(f) applied to an Ok result returns that result and does
\* not call f: no effect and no exception of f happens.
C14_MapErrorSkipsOk ==
    (IsDone("mapError") /\ ev.in.ok) =>
        /\ ev.out = Return(ev.in)
        /\ ev.calls = <<>>
        /\ comp = None
        /\ Top.acc = ev.in

\* C14 witness: mapError was given a function that throws its argument and
\* the result ok('hello'), and returned ok('hello').
C14_Witness ==
    /\ IsDone("mapError")
    /\ ev.func.fn = "thrower"
    /\ ev.in = ok(Str("hello"))
    /\ Top.acc = ok(Str("hello"))

\* C15: mapError(f) applied to error(e) calls f once, with e, and returns
\* an Error result whose payload is the value f returned.
C15_MapErrorMapsPayload ==
    (IsDone("mapError") /\ ~ev.in.ok) =>
        LET e == ev.in.value
            r == Invoke(ev.func, e).c
        IN  /\ ev.calls = <<[fn |-> ev.func.fn, arg |-> e]>>
            /\ r.c = "return" =>
                    /\ ev.out = Return(error(r.v))
                    /\ comp = None
                    /\ Top.acc = error(r.v)

\* C15 witness: mapError(() => 'test') turned error('hello') into
\* error('test').
C15_Witness ==
    /\ IsDone("mapError")
    /\ ev.func.fn = "toTest"
    /\ ev.in = error(Str("hello"))
    /\ ev.calls = <<[fn |-> "toTest", arg |-> Str("hello")]>>
    /\ Top.acc = error(Str("test"))

\* C16: mapError(g) applied to what mapError(f) made of a result r
\* completes as mapError(e => g(f(e))) applied to r; and when mapError(f)
\* throws, so does that composite, with the same exception, for every g.
C16_MapErrorComposes ==
    IsDone("mapError") =>
        /\ ev.prev # <<>> =>
                ev.out = mapError(Compose(ev.func, ev.prev[1].func),
                                  ev.prev[1].in).c
        /\ ev.out.c = "throw" =>
                \A g \in Mappers :
                    mapError(Compose(g, ev.func), ev.in).c = ev.out

\* C16 witness: error('hello') went through mapError(() => 'test') and
\* then through mapError of the boxing function.
C16_Witness ==
    /\ IsDone("mapError")
    /\ ev.prev = <<[func |-> [fn |-> "toTest"], in |-> error(Str("hello"))]>>
    /\ ev.func.fn = "box"
    /\ Top.acc = error([t |-> "box", of |-> Str("test")])

\* C17: tapError(f) applied to a result r returns r, whatever f returns;
\* it calls f once, with the payload, when r is an Error and not at all
\* when r is an Ok; and it completes as mapError of the function that
\* calls f(e) and returns e.
C17_TapErrorLeavesResult ==
    IsDone("tapError") =>
        /\ ev.out.c = "return" => (ev.out.v = ev.in /\ Top.acc = ev.in)
        /\ ev.calls = IF ev.in.ok THEN <<>>
                      ELSE <<[fn |-> ev.func.fn, arg |-> ev.in.value]>>
        /\ ev.out.c = "throw" =>
                (~ev.in.ok /\ Invoke(ev.func, ev.in.value).c = ev.out)
        /\ ev.out = mapError(Tap(ev.func), ev.in).c

\* C17 witness: tapError of the constant function () => 'test' was applied
\* to error('hello'), called the function with 'hello', and returned
\* error('hello').
C17_Witness ==
    /\ IsDone("tapError")
    /\ ev.func.fn = "toTest"
    /\ ev.in = error(Str("hello"))
    /\ ev.calls = <<[fn |-> "toTest", arg |-> Str("hello")]>>
    /\ Top.acc = error(Str("hello"))

\* What asyncFallible's caller holds when the call returns: the promise.
ReturnsPromise == comp = Return(PromiseRef(ev.promise))
\* asyncFallible returns to its caller: at its await, or, when func threw
\* before returning, at the end of its catch clause.
AsyncFallibleReturns ==
    \/ ev.e = "await" /\ ev.k = "asyncFallible"
    \/ IsDone("asyncFallible") /\ ~ev.resumed

\* C18 as claimed: the promise asyncFallible returns is pending at the
\* moment of the return, also when the body throws or calls
\* propagate(error(e)) before any suspension.
C18_PendingAtReturn ==
    AsyncFallibleReturns => promises[ev.promise].state = "pending"

\* C18: asyncFallible returns a promise, never a Result and never an
\* exception.  When func returned, a plain Result included, the promise is
\* pending at the return and settles in a later microtask, with no caller
\* on the stack.  When a func that is no async function threw before
\* returning, a sentinel included, the promise is settled already at the
\* return, fulfilled with the Error or rejected with the exception.
C18_AlwaysThroughPromise ==
    /\ AsyncFallibleReturns => ReturnsPromise
    /\ (ev.e = "await" /\ ev.k = "asyncFallible") =>
            /\ promises[ev.promise].state = "pending"
            /\ ev.in.c = "return"
    /\ IsDone("asyncFallible") =>
            /\ ~ev.resumed => ev.in.c = "throw"
            /\ ev.resumed => (stack = <<>> /\ comp = None)
            /\ IF ev.out.c = "return"
               THEN Fulfilled(ev.promise, ev.out.v)
               ELSE Rejected(ev.promise, ev.out.v)

\* C18 witness: the body, a plain function, returned a Result without
\* awaiting anything, and the caller holds a pending promise.
C18_Witness ==
    /\ ev.e = "await"
    /\ ev.k = "asyncFallible"
    /\ ev.in = Return(ok(Num(1)))
    /\ ReturnsPromise
    /\ promises[ev.promise].state = "pending"

\* C19: the capability of a boundary that has returned, called with
\* error(e), throws a sentinel carrying e in the function that called it,
\* whose activation ends there; the sentinel is caught, if at all, by a
\* boundary that is active around that call, never by the one that has
\* returned; and called with ok(v) the capability returns v and the
\* function goes on.
C19_EscapedCapability ==
    /\ (IsStmt("propagate") /\ ev.cap = 0) =>
            IF ev.arg.ok
            THEN /\ comp = None
                 /\ Len(stack) = ev.depth
                 /\ Top.acc = ev.arg.value
            ELSE LET sentinel ==
                        [FallibleError(ev.arg.value) EXCEPT !.scope = ev.scope]
                 IN  /\ Len(stack) = ev.depth - 1
                     /\ IF ev.async
                        THEN \E p \in DOMAIN promises : Rejected(p, sentinel)
                        ELSE comp = Throw(sentinel)
    /\ \A k \in {"fallible", "asyncFallible"} :
            (IsDone(k) /\ ev.in.c = "throw" /\ IsSentinel(ev.in.v)
                /\ ev.in.v.cap = 0) =>
                    /\ ev.in.v.scope = ev.id
                    /\ ev.out = Return(error(ev.in.v.value))

\* C19 witness: the caller's script called the capability of a boundary
\* that had returned with error('NotInteger'); the sentinel left the script
\* with no boundary to catch it.
C19_Witness ==
    /\ IsStmt("propagate")
    /\ ev.cap = 0
    /\ ev.role = "main"
    /\ ev.arg = error(Str("NotInteger"))
    /\ stack = <<>>
    /\ comp.c = "throw"
    /\ IsSentinel(comp.v)
    /\ comp.v.value = Str("NotInteger")

\* A Result has a boolean tag, a payload, and nothing else (t is the
\* model's type tag).
WellFormed(r) == DOMAIN r = {"t", "ok", "value"} /\ r.ok \in BOOLEAN

\* C20: every Result the library makes has one boolean tag and one payload:
\* ok gives the tag true and error the tag false, with the argument as the
\* payload, undefined when there is no argument; and propagate, mapError
\* and tapError take the Error branch exactly when the tag is false,
\* whatever the payload is, undefined or another Result included.
C20_TagAlone ==
    /\ IsDone("ok") =>
            ev.out.v = [t |-> "Result", ok |-> TRUE, value |-> Param(ev.args)]
    /\ IsDone("error") =>
            ev.out.v = [t |-> "Result", ok |-> FALSE, value |-> Param(ev.args)]
    /\ (ev.e = "done" /\ ev.out.c = "return" /\ IsResult(ev.out.v)) =>
            WellFormed(ev.out.v)
    /\ (IsDone("mapError") \/ IsDone("tapError")) =>
            (ev.calls = <<>> <=> ev.in.ok)
    /\ IsStmt("propagate") =>
            /\ WellFormed(ev.arg)
            /\ Len(stack) = ev.depth <=> ev.arg.ok
            /\ ev.arg.ok => Top.acc = ev.arg.value

\* C20 witness: propagate, given an Ok whose payload is an Error result,
\* returned that payload to the body and threw nothing.
C20_Witness ==
    /\ IsStmt("propagate")
    /\ ev.arg = ok(error(Str("hello")))
    /\ comp = None
    /\ Len(stack) = ev.depth
    /\ Top.acc = error(Str("hello"))

\* C21: no call changes a Result: the Result passed to mapError or tapError
\* has the same tag and payload after the call, and for an Error the
\* outcome is a Result made of what func returned, or the Error itself for
\* tapError; the Result a body returns is the one fallible returns; and the
\* value propagate returns is the payload of the Ok it was given.
C21_ResultsUnchanged ==
    /\ (IsDone("mapError") \/ IsDone("tapError")) =>
            /\ ev.after = ev.in
            /\ ev.in.ok => ev.out = Return(ev.in)
            /\ (~ev.in.ok /\ ev.out.c = "return") =>
                    ev.out.v = IF ev.k = "tapError" THEN ev.in
                               ELSE error(Invoke(ev.func, ev.in.value).c.v)
    /\ (IsDone("fallible") /\ ev.in.c = "return") =>
            (ev.out = ev.in /\ ev.hist.ret = <<ev.out.v>>)
    /\ (IsStmt("propagate") /\ ev.arg.ok) => Top.acc = ev.arg.value

\* C21 witness: mapError of the mock returned error(undefined) for
\* error('hello'), and the Error passed in still carries 'hello'.
C21_Witness ==
    /\ IsDone("mapError")
    /\ ev.func.fn = "mock"
    /\ ev.in = error(Str("hello"))
    /\ ev.after = error(Str("hello"))
    /\ Top.acc = error(Undefined)

\* The activations of the body of boundary b: running or called from on the
\* stack, suspended at an await, or queued to resume.
IsBodyOf(f, b) == f.k = "func" /\ f.role = "body" /\ f.scope = b
Activations(b) ==
    Cardinality({i \in 1..Len(stack) : IsBodyOf(stack[i], b)})
        + Cardinality({i \in 1..Len(waiting) : IsBodyOf(waiting[i].frame, b)})
        + Cardinality({i \in 1..Len(jobs) : IsBodyOf(jobs[i].frame, b)})

\* C22: the awaits of one asyncFallible body are sequential: while the body
\* is suspended at an await it is not running, so no statement after the
\* await runs and no second awaited step starts; it is suspended exactly as
\* long as the awaited step is pending, and it resumes with the outcome the
\* step settled with.
C22_AwaitsSequential ==
    /\ \A b \in DOMAIN live : Activations(b) <= 1
    /\ \A i \in 1..Len(waiting) : promises[waiting[i].p].state = "pending"
    /\ \A i \in 1..Len(jobs) : jobs[i].comp.c # "none"
    /\ (IsStmt("await") /\ ev.role = "body") =>
            /\ Len(stack) = ev.depth - 1
            /\ \A i \in 1..Len(stack) : ~IsBodyOf(stack[i], ev.scope)

\* C22 witness: the body, resumed after its first awaited step settled,
\* awaits a second step, which is pending.
C22_Witness ==
    /\ IsStmt("await")
    /\ ev.role = "body"
    /\ ev.scope = 1
    /\ ev.resumed
    /\ promises[3].state # "pending"
    /\ \E i \in 1..Len(waiting) :
            IsBodyOf(waiting[i].frame, 1) /\ waiting[i].p > 3

\* The last microtask queued resumes the library call whose promise is p
\* with completion c.
QueuedLast(p, c) ==
    /\ jobs # <<>>
    /\ jobs[Len(jobs)].frame.k # "func"
    /\ jobs[Len(jobs)].frame.promise = p
    /\ jobs[Len(jobs)].comp = c

C24_SettlesWithBody ==
    /\ [](promises[1].state # "pending" => promises[2].state # "pending")
    /\ [](promises[3].state = "pending" => promises[1].state = "pending")
    /\ (promises[2].state # "pending") ~> (promises[1].state # "pending")

\* C24 witness: the awaited step settled, the body's promise was rejected
\* and the boundary's promise is rejected with the same exception.
C24_Witness ==
    /\ IsDone("asyncFallible")
    /\ ev.promise = 1
    /\ promises[3].state = "fulfilled"
    /\ Rejected(2, Num(123))
    /\ Rejected(1, Num(123))

BelongsTo(f, b) ==
    IF f.k = "func" THEN f.scope = b ELSE f.k = "asyncFallible" /\ f.id = b
SuspendedOf(b) ==
    <<SelectSeq(waiting, LAMBDA w : BelongsTo(w.frame, b)),
      SelectSeq(jobs, LAMBDA j : BelongsTo(j.frame, b))>>

\* A step in which a body calls propagate(error(e)) leaves every other
\* boundary as it was: its history, its suspended body and its promise.
OthersUntouched ==
    (ev'.e = "stmt" /\ ev'.op = "propagate" /\ ~ev'.arg.ok) =>
        \A b \in DOMAIN live \ {ev'.scope} :
            /\ b \in DOMAIN live'
            /\ live'[b] = live[b]
            /\ SuspendedOf(b)' = SuspendedOf(b)
            /\ \A i \in 1..Len(waiting) :
                    BelongsTo(waiting[i].frame, b) =>
                        /\ promises'[waiting[i].p] = promises[waiting[i].p]
                        /\ promises'[waiting[i].frame.promise] =
                                promises[waiting[i].frame.promise]

\* The promise of an asyncFallible call settles with what its own body
\* did: the Error of the first propagate(error(e)) of the body, carried by
\* a sentinel made in that body, or else the Result the body returned or
\* the exception it threw.
OwnResult ==
    IsDone("asyncFallible") =>
        /\ IF ev.out.c = "return"
           THEN Fulfilled(ev.promise, ev.out.v)
           ELSE Rejected(ev.promise, ev.out.v)
        /\ IF Failed
           THEN /\ ev.in.c = "throw"
                /\ IsSentinel(ev.in.v)
                /\ ev.in.v.cap = ev.id
                /\ ev.in.v.scope = ev.id
                /\ ev.in.v.value = ev.hist.firstFail[1]
                /\ ev.out = Return(FirstError)
           ELSE /\ ev.out = ev.in
                /\ ev.in.c = "return" => ev.hist.ret = <<ev.in.v>>
                /\ ev.in.c = "throw" => ~IsSentinel(ev.in.v)

\* C27: asyncFallible boundaries whose bodies interleave at their awaits do
\* not affect each other: each promise settles with the result of its own
\* body, and a propagate(error(e)) in one body neither ends nor changes
\* another boundary, nor reaches another boundary's catch clause.
C27_BoundariesIndependent == []OwnResult /\ [][OthersUntouched]_vars

\* C27 witness: the body of the second boundary, started while the body of
\* the first was suspended, resumed and called propagate(error(e)); the
\* second promise is fulfilled with error(e) and the first body is still
\* suspended, its boundary untouched.
C27_Witness ==
    /\ IsDone("asyncFallible")
    /\ ev.id = 2
    /\ Failed
    /\ ev.hist.late
    /\ Fulfilled(ev.promise, FirstError)
    /\ promises[3].state = "pending"
    /\ 1 \in DOMAIN live
    /\ live[1] = NoFail
    /\ \E i \in 1..Len(waiting) : IsBodyOf(waiting[i].frame, 1)

\* Some promise is rejected with a sentinel carrying e.
RejectedWithSentinel(e) ==
    \E p \in DOMAIN promises :
        /\ promises[p].state = "rejected"
        /\ IsSentinel(promises[p].value)
        /\ promises[p].value.value = e

\* C28: a propagate(error(e)) called in an async function that the body of
\* asyncFallible started and did not await is not caught by the boundary.
\* The sentinel ends that function only and rejects the promise the
\* function returned, before or after the boundary has settled; it is not
\* thrown into the body.  The boundary catches a sentinel only when its own
\* body called propagate(error(e)), and when the body returned it settles
\* with the Result the body returned.
C28_DetachedNotCaught ==
    /\ (IsStmt("propagate") /\ ev.role = "detached" /\ ~ev.arg.ok) =>
            /\ Len(stack) = ev.depth - 1
            /\ comp.c # "throw"
            /\ RejectedWithSentinel(ev.arg.value)
            /\ ev.scope \in DOMAIN live => promises[1].state = "pending"
    /\ IsDone("asyncFallible") =>
            /\ (ev.in.c = "throw" /\ IsSentinel(ev.in.v)) =>
                    (Failed /\ ev.in.v.value = ev.hist.firstFail[1])
            /\ ev.in.c = "return" =>
                    /\ ev.hist.ret = <<ev.in.v>>
                    /\ ev.out = ev.in
                    /\ Fulfilled(ev.promise, ev.in.v)

\* C28 witness: the boundary's promise is fulfilled with the ok(1) its body
\* returned; afterwards the function the body had started without awaiting
\* it resumed and called propagate(error('NotInteger')), and the sentinel is
\* the rejection of that function's promise.
C28_Witness ==
    /\ IsStmt("propagate")
    /\ ev.role = "detached"
    /\ ev.resumed
    /\ ev.arg = error(Str("NotInteger"))
    /\ live = <<>>
    /\ Fulfilled(1, ok(Num(1)))
    /\ RejectedWithSentinel(Str("NotInteger"))

====
